---- MODULE Spec2Model ----
(***************************************************************************)
(* cargo-phabricator: the NDJSON ingestion pipeline of src/jsonl.rs        *)
(* (stream_values, get_stdout_json_lines, get_reason_json_lines,           *)
(* filter_reported), its consumer Context::test, and the two hand-written  *)
(* read loops Context::check and Context::fmt with their publication step. *)
(*                                                                         *)
(* A run is one invocation of one command on one child process.  The       *)
(* child's standard output is a finite sequence of lines; each line is     *)
(* described by what the decoders of the source can tell about it.         *)
(*                                                                         *)
(* Parts of the source that depend on their input alone are checked under  *)
(* specifications of their own: the reading and decoding of one line at    *)
(* the level of bytes (SpecBytes), the construction of a lint from a       *)
(* compiler diagnostic (SpecLint) and the search for .arcconfig of         *)
(* src/arcconfig.rs (SpecFind).  SpecLoop is Context::check and            *)
(* Context::fmt alone, with the fairness that drives a run to its end.     *)
(***************************************************************************)
EXTENDS Integers, Sequences, FiniteSets, TLC

\* Longest child output, in lines.
MaxLines == 3

\* Longest child output, in bytes, where bytes are looked at.
MaxBytes == 4

\* Most spans of a compiler diagnostic.
MaxSpans == 2

\* Most directories between the root and the current working directory.
MaxDepth == 2

\* ------------------------------------------------------------------------
\* Inputs
\* ------------------------------------------------------------------------

\* The commands modelled.  "lines" pulls get_stdout_json_lines(..).filter_reported()
\* until the stream ends, "reason" does the same with get_reason_json_lines,
\* "test" is Context::test, "check" and "fmt" are Context::check / Context::fmt.
Cmds == {"lines", "reason", "test", "check", "fmt"}

StreamCmds == {"lines", "reason", "test"}

LoopCmds == {"check", "fmt"}

\* What the decoders can observe of one line of output:
\*   json   - serde_json::from_slice accepts the bytes as a JSON value
\*   reason - the "reason" member: absent, not a string, a string other than
\*            the expected tag, or the expected tag
\*   shape  - the value decodes into the command's target schema
\*            (LintSchema, ArtifactSchema, Vec<FileSchema>)
\*   code   - message.code is present (check)
\*   n      - number of mismatches carried by the line (fmt)
Line(j, r, s, c, n) == [json |-> j, reason |-> r, shape |-> s, code |-> c, n |-> n]

LineKinds ==
    { Line(FALSE, "absent",    FALSE, FALSE, 0),
      Line(TRUE,  "absent",    FALSE, FALSE, 0),
      Line(TRUE,  "nonstring", FALSE, FALSE, 0),
      Line(TRUE,  "other",     FALSE, FALSE, 0),
      Line(TRUE,  "expected",  FALSE, FALSE, 0),
      Line(TRUE,  "expected",  TRUE,  FALSE, 0),
      Line(TRUE,  "expected",  TRUE,  TRUE,  1),
      Line(TRUE,  "absent",    TRUE,  FALSE, 2) }

\* Raw wait statuses: 0 is success, 256 is exit code 1, 9 is death by SIGKILL.
ExitStatuses == {0, 256, 9}

BoundedSeq(S, n) == UNION { [1..k -> S] : k \in 0..n }

\* ------------------------------------------------------------------------
\* Values
\* ------------------------------------------------------------------------

\* Result<T, jsonl::Error> items; line is the 1-based index of the source line
\* an item was decoded from (0 when it comes from no line).
OkItem(i) == [tag |-> "Ok", kind |-> "Value", line |-> i, status |-> 0]

ErrItem(k, i, st) == [tag |-> "Err", kind |-> k, line |-> i, status |-> st]

NoResult == [tag |-> "none", kind |-> "", inner |-> "", status |-> 0]

OkResult == [tag |-> "Ok", kind |-> "", inner |-> "", status |-> 0]

\* kind names the variant of the command's own Error enum; Context::test wraps
\* the jsonl error it received in CommandOutput, inner then names that error.
ErrResult(k, st) == [tag |-> "Err", kind |-> k, inner |-> "", status |-> st]

WrappedResult(k, in, st) == [tag |-> "Err", kind |-> k, inner |-> in, status |-> st]

\* The command did not return: the `todo!()` of Context::test was reached.
PanicResult == [tag |-> "Panic", kind |-> "", inner |-> "", status |-> 0]

NoStatus == -1

VARIABLES
    cmd,         \* the command being run
    stdout,      \* everything the child writes to its standard output
    pos,         \* number of lines read so far
    child,       \* "none", "running", "reaped" or "killed"
    eof,         \* a read has returned zero bytes
    unfold,      \* try_unfold of stream_values: "state" while it holds (reader, line)
    chain,       \* get_stdout_json_lines: "none", "spawn_err", "first", "second", "done"
    fed,         \* items handed to filter_reported, in order
    out,         \* items the consumer received, in order
    warnings,    \* decode warnings printed, in order
    lints,       \* the batch of check / fmt
    published,   \* the arguments of every publish_work call, in order
    exit_status, \* the status obtained from wait_with_output, NoStatus before
    waits,       \* for every wait started: whether end-of-input had been read
    result,      \* what the command returned
    pc,          \* position of the command
    publish_failed, \* a publish_work call returned an error
    tests,       \* Context::test: lines of the artifacts kept as tests, in order
    test_children, \* Context::test: state of the child of every run_test call made
    src,         \* SpecBytes: the bytes of the child's standard output
    cursor,      \* SpecBytes: number of bytes read
    line,        \* SpecBytes: the line buffer
    bmode,       \* SpecBytes: "stream_values" or "loop" (check / fmt)
    bstate,      \* SpecBytes: "active" until the sequence or loop has ended
    byielded,    \* SpecBytes: items yielded (stream_values) or lines decoded (loop)
    bwarned,     \* SpecBytes: lines for which the loop printed a warning
    diag,        \* SpecLint: the decoded LintSchema
    arcconfig,   \* SpecLint: Context::arcconfig, the directory of .arcconfig
    lint,        \* SpecLint: what the loop body pushed on lints
    lpc,         \* SpecLint: "input" before the loop body ran, "done" after
    start_dir,   \* SpecFind: the current working directory, as path components
    arcfiles,    \* SpecFind: the .arcconfig of every directory from the root down
    cwd,         \* SpecFind: the directory find is looking at
    opened,      \* SpecFind: the directories whose .arcconfig find tried to open
    found,       \* SpecFind: what find returned
    fpc          \* SpecFind: "start", "loop" or "done"

runVars == <<cmd, stdout, pos, child, eof, unfold, chain, fed, out, warnings,
             lints, published, exit_status, waits, result, pc,
             publish_failed, tests, test_children>>

byteVars == <<src, cursor, line, bmode, bstate, byielded, bwarned>>

\* The variables of the specifications of pure parts.
lintVars == <<diag, arcconfig, lint, lpc>>

findVars == <<start_dir, arcfiles, cwd, opened, found, fpc>>

pureVars == <<byteVars, lintVars, findVars>>

vars == <<runVars, pureVars>>

testVars == <<tests, test_children>>

streamVars == <<unfold, chain, fed, out>>

loopVars == <<lints, published>>

\* ------------------------------------------------------------------------
\* Pure parts of src/jsonl.rs
\* ------------------------------------------------------------------------

\* A success test that looks at the exit code only, so that a death by signal
\* (no exit code) passes.
success_by_code(st) == st \in {0, 9}

\* std::process::ExitStatus::success
success(st) == st = 0

\* Command::kill_on_drop: only Context::test asks for it.
kill_on_drop(c) == c = "test"

\* Dropping a tokio Child handle.
drop_child(c, st) ==
    IF st = "running" /\ kill_on_drop(c) THEN "killed" ELSE st

\* serde_json::from_slice(&line) in stream_values, T = serde_json::Value.
from_slice(l) == l.json

\* A decoding step that hands out the value of the first line again.
stream_values_item_stale(l, i) ==
    IF from_slice(l) THEN OkItem(1) ELSE ErrItem("ParseLine", i, 0)

\* One step of the try_unfold closure on line i: the item it yields.
stream_values_item(l, i) ==
    IF from_slice(l) THEN OkItem(i) ELSE ErrItem("ParseLine", i, 0)

\* A try_unfold that would go on reading after any item.
unfold_after_keeps_state(item) == "state"

\* try_unfold keeps its state only when the closure returned Ok(Some(..)).
unfold_after(item) == IF item.tag = "Ok" THEN "state" ELSE "none"

\* A terminal step with the test of the status inverted.
exit_items_inverted(st) ==
    IF success(st) THEN <<ErrItem("ExitStatus", 0, st)>> ELSE <<>>

\* The terminal step chained after stream_values: Ok(None) is transposed away.
exit_items(st) ==
    IF ~success(st) THEN <<ErrItem("ExitStatus", 0, st)>> ELSE <<>>

\* A reason filter that reports a tag mismatch instead of dropping it.
get_reason_json_lines_reports_mismatch(item, l) ==
    IF item.tag = "Err" THEN <<item>>
    ELSE IF l.reason # "expected" \/ ~l.shape THEN <<ErrItem("ParseValue", item.line, 0)>>
    ELSE <<item>>

\* The filter_map closure of get_reason_json_lines on one item.
get_reason_json_lines(item, l) ==
    IF item.tag = "Err" THEN <<item>>
    ELSE IF l.reason # "expected" THEN <<>>
    ELSE IF ~l.shape THEN <<ErrItem("ParseValue", item.line, 0)>>
    ELSE <<item>>

\* A warning filter that also swallows read failures.
filter_reported_swallows_read(item) ==
    IF item.tag = "Ok" THEN [items |-> <<item>>, warns |-> <<>>]
    ELSE IF item.kind \in {"ParseLine", "ParseValue", "ReadLine"}
         THEN [items |-> <<>>, warns |-> <<item>>]
    ELSE [items |-> <<item>>, warns |-> <<>>]

\* The filter_map closure of filter_reported on one item: what it yields and
\* what it prints.
filter_reported(item) ==
    IF item.tag = "Ok" THEN [items |-> <<item>>, warns |-> <<>>]
    ELSE IF item.kind = "ParseLine" THEN [items |-> <<>>, warns |-> <<item>>]
    ELSE IF item.kind = "ParseValue" THEN [items |-> <<>>, warns |-> <<item>>]
    ELSE [items |-> <<item>>, warns |-> <<>>]

\* filter_reported applied to what the stage below it yielded for one item
\* (nothing or one item).
filter_stage(staged) ==
    IF staged = <<>> THEN [items |-> <<>>, warns |-> <<>>]
    ELSE filter_reported(staged[1])

\* The stages below get_stdout_json_lines for the running command.
reason_stage(c, item, l) ==
    IF c = "lines" THEN <<item>> ELSE get_reason_json_lines(item, l)

HasErr(s) == \E i \in 1..Len(s) : s[i].tag = "Err"

FirstErr(s) == s[CHOOSE i \in 1..Len(s) : s[i].tag = "Err" /\ \A j \in 1..(i-1) : s[j].tag # "Err"]

NoLine == Line(FALSE, "absent", FALSE, FALSE, 0)

\* ------------------------------------------------------------------------
\* Initial state
\* ------------------------------------------------------------------------

\* The byte-level reader is not in use.
BytesIdle ==
    /\ src = <<>>
    /\ cursor = 0
    /\ line = <<>>
    /\ bmode = "none"
    /\ bstate = "idle"
    /\ byielded = <<>>
    /\ bwarned = <<>>

\* The lint construction is not in use.
LintIdle ==
    /\ diag = <<>>
    /\ arcconfig = <<>>
    /\ lint = <<>>
    /\ lpc = "idle"

\* arcconfig::find is not in use.
FindIdle ==
    /\ start_dir = <<>>
    /\ arcfiles = <<>>
    /\ cwd = <<>>
    /\ opened = <<>>
    /\ found = <<>>
    /\ fpc = "idle"

\* No command is run.
RunIdle ==
    /\ cmd = "none"
    /\ stdout = <<>>
    /\ pos = 0
    /\ child = "none"
    /\ eof = FALSE
    /\ unfold = "none"
    /\ chain = "none"
    /\ fed = <<>>
    /\ out = <<>>
    /\ warnings = <<>>
    /\ lints = <<>>
    /\ published = <<>>
    /\ exit_status = NoStatus
    /\ waits = <<>>
    /\ result = NoResult
    /\ pc = "idle"
    /\ publish_failed = FALSE
    /\ tests = <<>>
    /\ test_children = <<>>

Init ==
    /\ cmd \in Cmds
    /\ stdout \in BoundedSeq(LineKinds, MaxLines)
    /\ pos = 0
    /\ child = "none"
    /\ eof = FALSE
    /\ unfold = "none"
    /\ chain = "none"
    /\ fed = <<>>
    /\ out = <<>>
    /\ warnings = <<>>
    /\ lints = <<>>
    /\ published = <<>>
    /\ exit_status = NoStatus
    /\ waits = <<>>
    /\ result = NoResult
    /\ pc = "start"
    /\ publish_failed = FALSE
    /\ tests = <<>>
    /\ test_children = <<>>
    /\ BytesIdle
    /\ LintIdle
    /\ FindIdle

\* ------------------------------------------------------------------------
\* The stream pipeline and its consumers
\* ------------------------------------------------------------------------

\* The loop body of Context::test on what it received: an artifact whose
\* profile.test is set (t) is pushed on tests.
tests_after(c, got, t, ts) ==
    IF c = "test" /\ got # <<>> /\ got[1].tag = "Ok" /\ t
    THEN Append(ts, got[1].line) ELSE ts

\* A consumer that would go on pulling after an error.
Deliver_keeps_pulling(item, l, chld) ==
    LET staged == reason_stage(cmd, item, l)
        got    == filter_stage(staged).items
    IN  /\ fed' = fed \o staged
        /\ out' = out \o got
        /\ warnings' = warnings \o filter_stage(staged).warns
        /\ \E t \in BOOLEAN : tests' = tests_after(cmd, got, t, tests)
        /\ result' = result
        /\ pc' = pc
        /\ child' = chld

\* An item leaves get_stdout_json_lines: it goes through the reason filter
\* (except for "lines") and filter_reported, and the consumer handles what
\* comes out.  Context::test returns on the first error it receives, which
\* drops the stream and with it the child handle chld.
Deliver(item, l, chld) ==
    LET staged == reason_stage(cmd, item, l)
        got    == filter_stage(staged).items
    IN  /\ fed' = fed \o staged
        /\ out' = out \o got
        /\ warnings' = warnings \o filter_stage(staged).warns
        /\ \E t \in BOOLEAN : tests' = tests_after(cmd, got, t, tests)
        /\ IF cmd = "test" /\ HasErr(got)
           THEN /\ result' = WrappedResult("CommandOutput", FirstErr(got).kind, FirstErr(got).status)
                /\ pc' = "done"
                /\ child' = drop_child(cmd, chld)
           ELSE /\ result' = result
                /\ pc' = pc
                /\ child' = chld

\* get_stdout_json_lines: cmd.spawn() succeeded.
spawn_stream ==
    /\ pc = "start"
    /\ cmd \in StreamCmds
    /\ child' = "running"
    /\ chain' = "first"
    /\ unfold' = "state"
    /\ pc' = "pull"
    /\ UNCHANGED <<cmd, stdout, pos, eof, fed, out, warnings, lints, published,
                   exit_status, waits, result>>
    /\ UNCHANGED <<publish_failed, testVars>>
    /\ UNCHANGED pureVars

\* get_stdout_json_lines: cmd.spawn() failed, the stream is the one Spawn error.
spawn_stream_fail ==
    /\ pc = "start"
    /\ cmd \in StreamCmds
    /\ chain' = "spawn_err"
    /\ pc' = "pull"
    /\ UNCHANGED <<cmd, stdout, pos, child, eof, unfold, fed, out, warnings, lints,
                   published, exit_status, waits, result>>
    /\ UNCHANGED <<publish_failed, testVars>>
    /\ UNCHANGED pureVars

\* A failed spawn whose error would be followed by the terminal wait step.
yield_spawn_err_then_waits ==
    /\ pc = "pull"
    /\ chain = "spawn_err"
    /\ chain' = "second"
    /\ Deliver(ErrItem("Spawn", 0, 0), NoLine, child)
    /\ UNCHANGED <<cmd, stdout, pos, eof, unfold, lints, published, exit_status, waits>>
    /\ UNCHANGED <<publish_failed, test_children>>
    /\ UNCHANGED pureVars

\* The stream of a failed spawn yields its error.
yield_spawn_err ==
    /\ pc = "pull"
    /\ chain = "spawn_err"
    /\ chain' = "done"
    /\ Deliver(ErrItem("Spawn", 0, 0), NoLine, child)
    /\ UNCHANGED <<cmd, stdout, pos, eof, unfold, lints, published, exit_status, waits>>
    /\ UNCHANGED <<publish_failed, test_children>>
    /\ UNCHANGED pureVars

\* stream_values: read_until returned a line, which is decoded.
stream_values_line ==
    /\ pc = "pull"
    /\ chain = "first"
    /\ unfold = "state"
    /\ pos < Len(stdout)
    /\ pos' = pos + 1
    /\ LET item == stream_values_item(stdout[pos + 1], pos + 1)
       IN  /\ unfold' = unfold_after(item)
           /\ Deliver(item, stdout[pos + 1], child)
    /\ UNCHANGED <<cmd, stdout, eof, chain, lints, published, exit_status, waits>>
    /\ UNCHANGED <<publish_failed, test_children>>
    /\ UNCHANGED pureVars

\* stream_values: read_until returned zero bytes, the stream ends.
stream_values_eof ==
    /\ pc = "pull"
    /\ chain = "first"
    /\ unfold = "state"
    /\ pos = Len(stdout)
    /\ eof' = TRUE
    /\ unfold' = "none"
    /\ UNCHANGED <<cmd, stdout, pos, child, chain, fed, out, warnings, lints, published,
                   exit_status, waits, result, pc>>
    /\ UNCHANGED <<publish_failed, testVars>>
    /\ UNCHANGED pureVars

\* stream_values: read_until failed.
stream_values_read_fail ==
    /\ pc = "pull"
    /\ chain = "first"
    /\ unfold = "state"
    /\ LET item == ErrItem("ReadLine", 0, 0)
       IN  /\ unfold' = unfold_after(item)
           /\ Deliver(item, NoLine, child)
    /\ UNCHANGED <<cmd, stdout, pos, eof, chain, lints, published, exit_status, waits>>
    /\ UNCHANGED <<publish_failed, test_children>>
    /\ UNCHANGED pureVars

\* Chain: stream_values returned None, the terminal future is polled next.
chain_second ==
    /\ pc = "pull"
    /\ chain = "first"
    /\ unfold = "none"
    /\ chain' = "second"
    /\ UNCHANGED <<cmd, stdout, pos, child, eof, unfold, fed, out, warnings, lints,
                   published, exit_status, waits, result, pc>>
    /\ UNCHANGED <<publish_failed, testVars>>
    /\ UNCHANGED pureVars

\* The terminal future: wait_with_output returned a status.
wait_stream ==
    /\ pc = "pull"
    /\ chain = "second"
    /\ \E st \in ExitStatuses :
        /\ exit_status' = st
        /\ waits' = Append(waits, eof)
        /\ chain' = "done"
        /\ IF exit_items(st) = <<>>
           THEN /\ child' = "reaped"
                /\ UNCHANGED <<fed, out, warnings, result, pc, tests>>
           ELSE Deliver(exit_items(st)[1], NoLine, "reaped")
    /\ UNCHANGED <<cmd, stdout, pos, eof, unfold, lints, published>>
    /\ UNCHANGED <<publish_failed, test_children>>
    /\ UNCHANGED pureVars

\* The terminal future: wait_with_output failed; the child handle it owned is dropped.
wait_stream_fail ==
    /\ pc = "pull"
    /\ chain = "second"
    /\ waits' = Append(waits, eof)
    /\ chain' = "done"
    /\ Deliver(ErrItem("WaitChild", 0, 0), NoLine, drop_child(cmd, child))
    /\ UNCHANGED <<cmd, stdout, pos, eof, unfold, lints, published, exit_status>>
    /\ UNCHANGED <<publish_failed, test_children>>
    /\ UNCHANGED pureVars

\* The consumer's pull returns None: the while-let loop is left.  Context::test
\* goes on to run the tests it collected, if any.
stream_end ==
    /\ pc = "pull"
    /\ chain = "done"
    /\ IF cmd = "test" /\ tests # <<>>
       THEN pc' = "tests" /\ result' = result
       ELSE pc' = "done" /\ result' = OkResult
    /\ UNCHANGED <<cmd, stdout, pos, child, eof, unfold, chain, fed, out, warnings, lints,
                   published, exit_status, waits>>
    /\ UNCHANGED <<publish_failed, testVars>>
    /\ UNCHANGED pureVars

StreamNext ==
    \/ spawn_stream
    \/ spawn_stream_fail
    \/ yield_spawn_err
    \/ stream_values_line
    \/ stream_values_eof
    \/ stream_values_read_fail
    \/ chain_second
    \/ wait_stream
    \/ wait_stream_fail
    \/ stream_end

\* ------------------------------------------------------------------------
\* Context::check and Context::fmt
\* ------------------------------------------------------------------------

\* A lint is identified by the line it was made from and its rank in that line.
Lint(i, k) == [line |-> i, k |-> k]

Warning(i) == ErrItem("ParseLine", i, 0)

\* serde_json::from_slice::<ReasonSchema>: needs a string member "reason".
reason_schema_ok(l) == l.json /\ l.reason \in {"other", "expected"}

\* A check loop that takes a diagnostic without a code for a line it could
\* not parse.
check_line_warns_without_code(l, i) ==
    IF ~reason_schema_ok(l) THEN [lints |-> <<>>, warns |-> <<Warning(i)>>]
    ELSE IF l.reason # "expected" THEN [lints |-> <<>>, warns |-> <<>>]
    ELSE IF ~l.shape THEN [lints |-> <<>>, warns |-> <<Warning(i)>>]
    ELSE IF ~l.code THEN [lints |-> <<>>, warns |-> <<Warning(i)>>]
    ELSE [lints |-> <<Lint(i, 1)>>, warns |-> <<>>]

\* A check loop that drops a line failing to decode into LintSchema silently.
check_line_silent(l, i) ==
    IF ~reason_schema_ok(l) THEN [lints |-> <<>>, warns |-> <<Warning(i)>>]
    ELSE IF l.reason # "expected" THEN [lints |-> <<>>, warns |-> <<>>]
    ELSE IF ~l.shape THEN [lints |-> <<>>, warns |-> <<>>]
    ELSE IF ~l.code THEN [lints |-> <<>>, warns |-> <<>>]
    ELSE [lints |-> <<Lint(i, 1)>>, warns |-> <<>>]

\* One iteration of the loop of Context::check on line i, after the read.
check_line(l, i) ==
    IF ~reason_schema_ok(l) THEN [lints |-> <<>>, warns |-> <<Warning(i)>>]
    ELSE IF l.reason # "expected" THEN [lints |-> <<>>, warns |-> <<>>]
    ELSE IF ~l.shape THEN [lints |-> <<>>, warns |-> <<Warning(i)>>]
    ELSE IF ~l.code THEN [lints |-> <<>>, warns |-> <<>>]
    ELSE [lints |-> <<Lint(i, 1)>>, warns |-> <<>>]

\* One iteration of the loop of Context::fmt on line i, after the read.
fmt_line(l, i) ==
    IF ~(l.json /\ l.shape) THEN [lints |-> <<>>, warns |-> <<Warning(i)>>]
    ELSE [lints |-> [k \in 1..l.n |-> Lint(i, k)], warns |-> <<>>]

\* A publication step that is not skipped for an empty batch.
after_wait_always_publishes(batch) == "publish"

\* `if !lints.is_empty()` after the wait.
after_wait(batch) == IF batch # <<>> THEN "publish" ELSE "status"

\* The value returned at the end of check / fmt.
status_result(st) == IF ~success(st) THEN ErrResult("ExitStatus", st) ELSE OkResult

\* cmd.spawn() succeeded.
spawn_loop ==
    /\ pc = "start"
    /\ cmd \in LoopCmds
    /\ child' = "running"
    /\ pc' = "loop"
    /\ UNCHANGED <<cmd, stdout, pos, eof, warnings, exit_status, waits, result>>
    /\ UNCHANGED <<streamVars, loopVars>>
    /\ UNCHANGED <<publish_failed, testVars>>
    /\ UNCHANGED pureVars

\* cmd.spawn() failed: `?` returns at once.
spawn_loop_fail ==
    /\ pc = "start"
    /\ cmd \in LoopCmds
    /\ result' = ErrResult("Spawn", 0)
    /\ pc' = "done"
    /\ UNCHANGED <<cmd, stdout, pos, child, eof, warnings, exit_status, waits>>
    /\ UNCHANGED <<streamVars, loopVars>>
    /\ UNCHANGED <<publish_failed, testVars>>
    /\ UNCHANGED pureVars

\* Context::check: a line was read and handled.
check_loop ==
    /\ pc = "loop"
    /\ cmd = "check"
    /\ pos < Len(stdout)
    /\ pos' = pos + 1
    /\ lints' = lints \o check_line(stdout[pos + 1], pos + 1).lints
    /\ warnings' = warnings \o check_line(stdout[pos + 1], pos + 1).warns
    /\ UNCHANGED <<cmd, stdout, child, eof, published, exit_status, waits, result, pc>>
    /\ UNCHANGED streamVars
    /\ UNCHANGED <<publish_failed, testVars>>
    /\ UNCHANGED pureVars

\* Context::fmt: a line was read and handled.
fmt_loop ==
    /\ pc = "loop"
    /\ cmd = "fmt"
    /\ pos < Len(stdout)
    /\ pos' = pos + 1
    /\ lints' = lints \o fmt_line(stdout[pos + 1], pos + 1).lints
    /\ warnings' = warnings \o fmt_line(stdout[pos + 1], pos + 1).warns
    /\ UNCHANGED <<cmd, stdout, child, eof, published, exit_status, waits, result, pc>>
    /\ UNCHANGED streamVars
    /\ UNCHANGED <<publish_failed, testVars>>
    /\ UNCHANGED pureVars

\* An end-of-input test without its `break`: the loop is not left.
loop_eof_keeps_reading ==
    /\ pc = "loop"
    /\ pos = Len(stdout)
    /\ eof' = TRUE
    /\ UNCHANGED <<cmd, stdout, pos, child, warnings, exit_status, waits, result, pc>>
    /\ UNCHANGED <<streamVars, loopVars>>
    /\ UNCHANGED <<publish_failed, testVars>>
    /\ UNCHANGED pureVars

\* read_until returned zero bytes: break.
loop_eof ==
    /\ pc = "loop"
    /\ pos = Len(stdout)
    /\ eof' = TRUE
    /\ pc' = "wait"
    /\ UNCHANGED <<cmd, stdout, pos, child, warnings, exit_status, waits, result>>
    /\ UNCHANGED <<streamVars, loopVars>>
    /\ UNCHANGED <<publish_failed, testVars>>
    /\ UNCHANGED pureVars

\* read_until failed: `?` returns, the child handle is dropped.
loop_read_fail ==
    /\ pc = "loop"
    /\ result' = ErrResult("ReadLine", 0)
    /\ pc' = "done"
    /\ child' = drop_child(cmd, child)
    /\ UNCHANGED <<cmd, stdout, pos, eof, warnings, exit_status, waits>>
    /\ UNCHANGED <<streamVars, loopVars>>
    /\ UNCHANGED <<publish_failed, testVars>>
    /\ UNCHANGED pureVars

\* child.wait_with_output() returned a status.
wait_child ==
    /\ pc = "wait"
    /\ \E st \in ExitStatuses : exit_status' = st
    /\ waits' = Append(waits, eof)
    /\ child' = "reaped"
    /\ pc' = after_wait(lints)
    /\ UNCHANGED <<cmd, stdout, pos, eof, warnings, result>>
    /\ UNCHANGED <<streamVars, loopVars>>
    /\ UNCHANGED <<publish_failed, testVars>>
    /\ UNCHANGED pureVars

\* child.wait_with_output() failed: `?` returns.
wait_child_fail ==
    /\ pc = "wait"
    /\ waits' = Append(waits, eof)
    /\ child' = drop_child(cmd, child)
    /\ result' = ErrResult("WaitChild", 0)
    /\ pc' = "done"
    /\ UNCHANGED <<cmd, stdout, pos, eof, warnings, exit_status>>
    /\ UNCHANGED <<streamVars, loopVars>>
    /\ UNCHANGED <<publish_failed, testVars>>
    /\ UNCHANGED pureVars

\* publish_work(&lints, &[]) succeeded.
publish_work ==
    /\ pc = "publish"
    /\ published' = Append(published, lints)
    /\ pc' = "status"
    /\ UNCHANGED <<cmd, stdout, pos, child, eof, warnings, lints, exit_status, waits, result>>
    /\ UNCHANGED streamVars
    /\ UNCHANGED <<publish_failed, testVars>>
    /\ UNCHANGED pureVars

\* A publication failure that is swallowed: the exit status is still checked.
publish_work_fail_swallowed ==
    /\ pc = "publish"
    /\ published' = Append(published, lints)
    /\ pc' = "status"
    /\ publish_failed' = TRUE
    /\ UNCHANGED <<cmd, stdout, pos, child, eof, warnings, lints, exit_status, waits, result>>
    /\ UNCHANGED streamVars
    /\ UNCHANGED testVars
    /\ UNCHANGED pureVars

\* publish_work(&lints, &[]) failed: `?` returns.
publish_work_fail ==
    /\ pc = "publish"
    /\ published' = Append(published, lints)
    /\ result' = ErrResult("PublishLints", 0)
    /\ pc' = "done"
    /\ UNCHANGED <<cmd, stdout, pos, child, eof, warnings, lints, exit_status, waits>>
    /\ UNCHANGED streamVars
    /\ publish_failed' = TRUE
    /\ UNCHANGED testVars
    /\ UNCHANGED pureVars

\* The final `if !exit_status.success()`.
return_status ==
    /\ pc = "status"
    /\ result' = status_result(exit_status)
    /\ pc' = "done"
    /\ UNCHANGED <<cmd, stdout, pos, child, eof, warnings, exit_status, waits>>
    /\ UNCHANGED <<streamVars, loopVars>>
    /\ UNCHANGED <<publish_failed, testVars>>
    /\ UNCHANGED pureVars

LoopNext ==
    \/ spawn_loop
    \/ spawn_loop_fail
    \/ check_loop
    \/ fmt_loop
    \/ loop_eof
    \/ loop_read_fail
    \/ wait_child
    \/ wait_child_fail
    \/ publish_work
    \/ publish_work_fail
    \/ return_status

\* ------------------------------------------------------------------------
\* Context::test: running the collected tests
\* ------------------------------------------------------------------------

\* buffer_unordered(1)
BufferLimit == 1

Running(cs) == Cardinality({i \in 1..Len(cs) : cs[i] = "running"})

\* Test futures started as soon as an artifact has been collected.
may_run_tests_early(p) == p \in {"pull", "tests"}

\* The test futures are only created after the artifact loop has ended.
may_run_tests(p) == p = "tests"

\* buffer_unordered starts the next run_test while fewer than BufferLimit are
\* in progress and artifacts are left.
can_start_test ==
    /\ may_run_tests(pc)
    /\ cmd = "test"
    /\ Len(test_children) < Len(tests)
    /\ Running(test_children) < BufferLimit

SetLast(cs, v) == [cs EXCEPT ![Len(cs)] = v]

\* run_test: the artifact has no executable ("test without executable?" is
\* printed, no child is made); Ok(vec![]) reaches the loop body, which is `todo!()`.
run_test_no_executable ==
    /\ can_start_test
    /\ test_children' = Append(test_children, "no_executable")
    /\ result' = PanicResult
    /\ pc' = "done"
    /\ UNCHANGED <<cmd, stdout, pos, child, eof, warnings, lints, published, exit_status,
                   waits, publish_failed, tests>>
    /\ UNCHANGED streamVars
    /\ UNCHANGED pureVars

\* run_test: cmd.spawn() succeeded, the future now waits for the test binary.
run_test_spawn ==
    /\ can_start_test
    /\ test_children' = Append(test_children, "running")
    /\ pc' = "test_wait"
    /\ UNCHANGED <<cmd, stdout, pos, child, eof, warnings, lints, published, exit_status,
                   waits, result, publish_failed, tests>>
    /\ UNCHANGED streamVars
    /\ UNCHANGED pureVars

\* run_test: cmd.spawn() failed; Err(SpawnTest) reaches the loop body.
run_test_spawn_fail ==
    /\ can_start_test
    /\ test_children' = Append(test_children, "spawn_failed")
    /\ result' = PanicResult
    /\ pc' = "done"
    /\ UNCHANGED <<cmd, stdout, pos, child, eof, warnings, lints, published, exit_status,
                   waits, publish_failed, tests>>
    /\ UNCHANGED streamVars
    /\ UNCHANGED pureVars

\* run_test: wait_with_output returned; the result reaches the loop body.
run_test_wait ==
    /\ pc = "test_wait"
    /\ test_children' = SetLast(test_children, "reaped")
    /\ result' = PanicResult
    /\ pc' = "done"
    /\ UNCHANGED <<cmd, stdout, pos, child, eof, warnings, lints, published, exit_status,
                   waits, publish_failed, tests>>
    /\ UNCHANGED streamVars
    /\ UNCHANGED pureVars

\* run_test: wait_with_output failed; the handle, made with kill_on_drop(true),
\* is dropped and Err(WaitTest) reaches the loop body.
run_test_wait_fail ==
    /\ pc = "test_wait"
    /\ test_children' = SetLast(test_children, "killed")
    /\ result' = PanicResult
    /\ pc' = "done"
    /\ UNCHANGED <<cmd, stdout, pos, child, eof, warnings, lints, published, exit_status,
                   waits, publish_failed, tests>>
    /\ UNCHANGED streamVars
    /\ UNCHANGED pureVars

TestNext ==
    \/ run_test_no_executable
    \/ run_test_spawn
    \/ run_test_spawn_fail
    \/ run_test_wait
    \/ run_test_wait_fail

Next == StreamNext \/ LoopNext \/ TestNext

\* ------------------------------------------------------------------------
\* Reading and decoding lines, byte by byte (SpecBytes)
\* ------------------------------------------------------------------------

\* A byte is the line terminator, or stands for a complete JSON text that
\* decodes into the target type ("v"), or for text that is not JSON ("x").
Bytes == {"LF", "v", "x"}

IsLF(b) == b = "LF"

NotLF(b) == b # "LF"

\* AsyncBufReadExt::read_until(b'\n', ..): the bytes it appends, from offset c
\* up to and including the next terminator, or up to the end of the input.
read_until(bytes, c) ==
    LET rest == SubSeq(bytes, c + 1, Len(bytes))
        lfs  == {i \in 1..Len(rest) : IsLF(rest[i])}
        stop == IF lfs = {} THEN Len(rest)
                ELSE CHOOSE i \in lfs : \A j \in lfs : i <= j
    IN  SubSeq(rest, 1, stop)

\* serde_json::from_slice on raw bytes: whitespace around the value is
\* skipped, there must be exactly one value and nothing else.
from_slice_bytes(bytes) == SelectSeq(bytes, NotLF) = <<"v">>

ByteItem(t, k, bytes) == [tag |-> t, kind |-> k, bytes |-> bytes]

InitBytes ==
    /\ src \in BoundedSeq(Bytes, MaxBytes)
    /\ bmode \in {"stream_values", "loop"}
    /\ cursor = 0
    /\ line = <<>>
    /\ bstate = "active"
    /\ byielded = <<>>
    /\ bwarned = <<>>
    /\ RunIdle
    /\ LintIdle
    /\ FindIdle

\* stream_values: the buffer is cleared, read_until returns a non-empty line,
\* which is decoded; on a decode error the buffer goes into the error and
\* try_unfold ends.
bytes_line_stream ==
    /\ bmode = "stream_values"
    /\ bstate = "active"
    /\ cursor < Len(src)
    /\ LET l == read_until(src, cursor)
       IN  /\ line' = l
           /\ cursor' = cursor + Len(l)
           /\ IF from_slice_bytes(l)
              THEN /\ byielded' = Append(byielded, ByteItem("Ok", "Value", l))
                   /\ bstate' = "active"
              ELSE /\ byielded' = Append(byielded, ByteItem("Err", "ParseLine", l))
                   /\ bstate' = "ended"
    /\ UNCHANGED <<src, bmode, bwarned>>
    /\ UNCHANGED runVars
    /\ UNCHANGED lintVars
    /\ UNCHANGED findVars

\* check / fmt: the buffer is cleared, read_until returns a non-empty line,
\* which is decoded; on a decode error a warning is printed and the loop
\* continues.
bytes_line_loop ==
    /\ bmode = "loop"
    /\ bstate = "active"
    /\ cursor < Len(src)
    /\ LET l == read_until(src, cursor)
       IN  /\ line' = l
           /\ cursor' = cursor + Len(l)
           /\ IF from_slice_bytes(l)
              THEN /\ byielded' = Append(byielded, ByteItem("Ok", "Value", l))
                   /\ bwarned' = bwarned
              ELSE /\ byielded' = byielded
                   /\ bwarned' = Append(bwarned, l)
    /\ UNCHANGED <<src, bmode, bstate>>
    /\ UNCHANGED runVars
    /\ UNCHANGED lintVars
    /\ UNCHANGED findVars

\* read_until returns zero bytes: line.is_empty() holds, the sequence ends
\* (stream_values) or the loop breaks (check / fmt).
bytes_eof ==
    /\ bstate = "active"
    /\ cursor = Len(src)
    /\ line' = <<>>
    /\ bstate' = "ended"
    /\ UNCHANGED <<src, cursor, bmode, byielded, bwarned>>
    /\ UNCHANGED runVars
    /\ UNCHANGED lintVars
    /\ UNCHANGED findVars

\* read_until fails: the ReadLine error ends the sequence or the loop.
bytes_read_fail ==
    /\ bstate = "active"
    /\ line' = <<>>
    /\ byielded' = Append(byielded, ByteItem("Err", "ReadLine", <<>>))
    /\ bstate' = "ended"
    /\ UNCHANGED <<src, cursor, bmode, bwarned>>
    /\ UNCHANGED runVars
    /\ UNCHANGED lintVars
    /\ UNCHANGED findVars

NextBytes ==
    \/ bytes_line_stream
    \/ bytes_line_loop
    \/ bytes_eof
    \/ bytes_read_fail

SpecBytes == InitBytes /\ [][NextBytes]_vars

\* ------------------------------------------------------------------------
\* From a compiler diagnostic to a lint (SpecLint)
\* ------------------------------------------------------------------------

\* Paths are sequences of components.
SpanFiles == { <<"src", "a.rs">>, <<"repo", "src", "b.rs">> }

\* SpanSchema
Spans ==
    [file_name : SpanFiles, line_start : {10, 20}, column_start : {4, 8},
     is_primary : BOOLEAN]

SrcPaths == { <<"repo", "src", "lib.rs">>, <<"other", "lib.rs">>, <<"repo">> }

ArcConfigDirs == { <<"repo">>, <<"repo", "src">> }

\* LintSchema, as far as the location of the lint depends on it: whether
\* message.code is present, message.spans and target.src_path.
Diags == [code : BOOLEAN, spans : BoundedSeq(Spans, MaxSpans), src_path : SrcPaths]

IsPrefix(a, b) == Len(a) <= Len(b) /\ SubSeq(b, 1, Len(a)) = a

\* filename.strip_prefix(&self.arcconfig).unwrap_or(&filename)
strip_prefix_or(path, base) ==
    IF IsPrefix(base, path) THEN SubSeq(path, Len(base) + 1, Len(path)) ELSE path

\* A search that returns the last primary span.
find_primary_last(spans) ==
    LET prim == {i \in 1..Len(spans) : spans[i].is_primary}
    IN  IF prim = {} THEN 0 ELSE CHOOSE i \in prim : \A j \in prim : j <= i

\* lint.message.spans.iter().find(|s| s.is_primary): the index found, 0 for None.
find_primary(spans) ==
    LET prim == {i \in 1..Len(spans) : spans[i].is_primary}
    IN  IF prim = {} THEN 0 ELSE CHOOSE i \in prim : \A j \in prim : i <= j

\* Option values are sequences of length at most 1.
Some(v) == <<v>>

None == <<>>

\* The rest of the loop body of Context::check for a decoded LintSchema: the
\* lints it pushes (none without a code).
check_lint(d, base) ==
    IF ~d.code THEN <<>>
    ELSE IF find_primary(d.spans) # 0
    THEN LET span == d.spans[find_primary(d.spans)]
         IN  << [path |-> span.file_name,
                 line |-> Some(span.line_start),
                 column |-> Some(span.column_start)] >>
    ELSE << [path |-> strip_prefix_or(d.src_path, base),
             line |-> None,
             column |-> None] >>

InitLint ==
    /\ diag \in Diags
    /\ arcconfig \in ArcConfigDirs
    /\ lint = <<>>
    /\ lpc = "input"
    /\ RunIdle
    /\ BytesIdle
    /\ FindIdle

\* The loop body of Context::check from the test of message.code to lints.push.
make_check_lint ==
    /\ lpc = "input"
    /\ lint' = check_lint(diag, arcconfig)
    /\ lpc' = "done"
    /\ UNCHANGED <<diag, arcconfig>>
    /\ UNCHANGED runVars
    /\ UNCHANGED byteVars
    /\ UNCHANGED findVars

NextLint == make_check_lint

SpecLint == InitLint /\ [][NextLint]_vars

\* ------------------------------------------------------------------------
\* arcconfig::find (SpecFind)
\* ------------------------------------------------------------------------

\* Names of directories.
DirNames == {"a", "b"}

\* What a directory holds under the name .arcconfig:
\*   missing      - File::open fails with NotFound
\*   denied       - File::open fails with another error
\*   garbage      - the file opens, its content is not JSON
\*   no_callsign  - JSON without the member repository.callsign
\*   callsign     - JSON with repository.callsign, without phabricator.uri
\*   callsign_uri - JSON with both
ArcFileKinds == {"missing", "denied", "garbage", "no_callsign", "callsign", "callsign_uri"}

\* A path is the sequence of its components below the root; the root is <<>>.
\* arcfiles[k + 1] is the .arcconfig of the ancestor of start_dir that has k
\* components.
Ancestor(path, k) == SubSeq(path, 1, k)

ArcFileAt(path) == arcfiles[Len(path) + 1]

\* File::open(&file_name)
open_result(kind) ==
    IF kind = "missing" THEN "NotFound"
    ELSE IF kind = "denied" THEN "OtherError"
    ELSE "Ok"

\* A decoder that accepts any JSON document.
from_reader_any_json(kind) == kind \in {"no_callsign", "callsign", "callsign_uri"}

\* serde_json::from_reader::<_, ArcConfigSchema>(..).is_ok(): callsign is a
\* required member, phab_uri an optional one.
from_reader(kind) == kind \in {"callsign", "callsign_uri"}

\* ArcConfigSchema::phab_uri of a file that decodes.
phab_uri(kind) == IF kind = "callsign_uri" THEN "Some" ELSE "None"

\* PathBuf::pop: truncates to the parent and returns true, or returns false
\* and leaves the path alone when there is no parent.
pop(path) ==
    IF path = <<>> THEN [popped |-> FALSE, path |-> path]
    ELSE [popped |-> TRUE, path |-> SubSeq(path, 1, Len(path) - 1)]

FoundOk(location, uri) == [tag |-> "Ok", kind |-> "", location |-> location, phab_uri |-> uri]

FoundErr(k, path) == [tag |-> "Err", kind |-> k, location |-> path, phab_uri |-> "None"]

InitFind ==
    /\ start_dir \in BoundedSeq(DirNames, MaxDepth)
    /\ arcfiles \in [1..(Len(start_dir) + 1) -> ArcFileKinds]
    /\ cwd = <<>>
    /\ opened = <<>>
    /\ found = <<>>
    /\ fpc = "start"
    /\ RunIdle
    /\ BytesIdle
    /\ LintIdle

\* std::env::current_dir() succeeded.
find_current_dir ==
    /\ fpc = "start"
    /\ cwd' = start_dir
    /\ fpc' = "loop"
    /\ UNCHANGED <<start_dir, arcfiles, opened, found>>
    /\ UNCHANGED runVars
    /\ UNCHANGED byteVars
    /\ UNCHANGED lintVars

\* std::env::current_dir() failed: `?` returns CurrentDir.
find_current_dir_fail ==
    /\ fpc = "start"
    /\ found' = FoundErr("CurrentDir", <<>>)
    /\ fpc' = "done"
    /\ UNCHANGED <<start_dir, arcfiles, cwd, opened>>
    /\ UNCHANGED runVars
    /\ UNCHANGED byteVars
    /\ UNCHANGED lintVars

\* The end of an iteration that did not return: `if !cwd.pop()`.
pop_or_fail ==
    IF pop(cwd).popped
    THEN /\ cwd' = pop(cwd).path
         /\ fpc' = "loop"
         /\ found' = found
    ELSE /\ cwd' = cwd
         /\ fpc' = "done"
         /\ found' = FoundErr("FindArcConfig", <<>>)

\* One iteration: File::open fails with NotFound.
find_not_found ==
    /\ fpc = "loop"
    /\ open_result(ArcFileAt(cwd)) = "NotFound"
    /\ opened' = Append(opened, cwd)
    /\ pop_or_fail
    /\ UNCHANGED <<start_dir, arcfiles>>
    /\ UNCHANGED runVars
    /\ UNCHANGED byteVars
    /\ UNCHANGED lintVars

\* One iteration: File::open fails with another error, which is returned.
find_open_fail ==
    /\ fpc = "loop"
    /\ open_result(ArcFileAt(cwd)) = "OtherError"
    /\ opened' = Append(opened, cwd)
    /\ found' = FoundErr("OpenArcConfig", cwd)
    /\ fpc' = "done"
    /\ UNCHANGED <<start_dir, arcfiles, cwd>>
    /\ UNCHANGED runVars
    /\ UNCHANGED byteVars
    /\ UNCHANGED lintVars

\* One iteration: the file opens and decodes; its directory is returned.
find_decoded ==
    /\ fpc = "loop"
    /\ open_result(ArcFileAt(cwd)) = "Ok"
    /\ from_reader(ArcFileAt(cwd))
    /\ opened' = Append(opened, cwd)
    /\ found' = FoundOk(cwd, phab_uri(ArcFileAt(cwd)))
    /\ fpc' = "done"
    /\ UNCHANGED <<start_dir, arcfiles, cwd>>
    /\ UNCHANGED runVars
    /\ UNCHANGED byteVars
    /\ UNCHANGED lintVars

\* One iteration: the file opens and does not decode.
find_not_decoded ==
    /\ fpc = "loop"
    /\ open_result(ArcFileAt(cwd)) = "Ok"
    /\ ~from_reader(ArcFileAt(cwd))
    /\ opened' = Append(opened, cwd)
    /\ pop_or_fail
    /\ UNCHANGED <<start_dir, arcfiles>>
    /\ UNCHANGED runVars
    /\ UNCHANGED byteVars
    /\ UNCHANGED lintVars

NextFind ==
    \/ find_current_dir
    \/ find_current_dir_fail
    \/ find_not_found
    \/ find_open_fail
    \/ find_decoded
    \/ find_not_decoded

\* find is straight-line synchronous code: it runs until it returns.
SpecFind == InitFind /\ [][NextFind]_vars /\ WF_vars(NextFind)

Spec == Init /\ [][Next]_vars

\* Context::check and Context::fmt alone, driven to completion: block_on polls
\* the future until it returns, the child closes its standard output and
\* exits, so every read and the wait return, and so does publish_work.  A
\* read or a wait is free to fail; nothing forces it to.
InitLoop ==
    /\ Init
    /\ cmd \in LoopCmds

Fairness ==
    /\ WF_vars(spawn_loop \/ spawn_loop_fail)
    /\ WF_vars(check_loop)
    /\ WF_vars(fmt_loop)
    /\ WF_vars(loop_eof)
    /\ WF_vars(wait_child \/ wait_child_fail)
    /\ WF_vars(publish_work \/ publish_work_fail)
    /\ WF_vars(return_status)

SpecLoop == InitLoop /\ [][LoopNext]_vars /\ Fairness

TypeOK ==
    /\ cmd \in Cmds
    /\ pos \in 0..Len(stdout)
    /\ child \in {"none", "running", "reaped", "killed"}
    /\ eof \in BOOLEAN
    /\ unfold \in {"state", "none"}
    /\ chain \in {"none", "spawn_err", "first", "second", "done"}
    /\ exit_status \in ExitStatuses \cup {NoStatus}
    /\ result.tag \in {"none", "Ok", "Err", "Panic"}
    /\ pc \in {"start", "pull", "loop", "wait", "publish", "status", "tests", "test_wait", "done"}
    /\ publish_failed \in BOOLEAN
    /\ Len(test_children) <= Len(tests)

\* ------------------------------------------------------------------------
\* Properties
\* ------------------------------------------------------------------------

Count(s, P(_)) == Cardinality({i \in 1..Len(s) : P(s[i])})

IsOk(x) == x.tag = "Ok"

IsJson(l) == l.json

NotJson(l) == ~l.json

KindIs(x, k) == x.tag = "Err" /\ x.kind = k

NoneOfKind(s, k) == \A i \in 1..Len(s) : ~KindIs(s[i], k)

AllJson(s) == \A i \in 1..Len(s) : s[i].json

Spawned == child # "none"

\* C1: in the stream of get_stdout_json_lines an ExitStatus error is the last
\* item and is only there for a non-zero status; when the child wrote K lines
\* that all decode and no read or wait failed, the consumer has received at
\* the end exactly Ok(1) .. Ok(K), followed by the one ExitStatus error when
\* the status is non-zero and by nothing when it is zero.
C1_ExitStatusIsLast ==
    cmd = "lines" =>
      /\ \A i \in 1..Len(out) :
            KindIs(out[i], "ExitStatus") =>
                /\ i = Len(out)
                /\ out[i].status # 0
                /\ \A j \in 1..(i - 1) : ~KindIs(out[j], "ExitStatus")
      /\ (/\ pc = "done"
          /\ exit_status # NoStatus
          /\ AllJson(stdout)
          /\ NoneOfKind(out, "ReadLine"))
         => out = [i \in 1..Len(stdout) |-> OkItem(i)]
                  \o (IF exit_status = 0 THEN <<>>
                      ELSE <<ErrItem("ExitStatus", 0, exit_status)>>)

C1_Witness ==
    /\ cmd = "lines"
    /\ pc = "done"
    /\ Len(stdout) = 2
    /\ AllJson(stdout)
    /\ exit_status = 256
    /\ out = <<OkItem(1), OkItem(2), ErrItem("ExitStatus", 0, 256)>>

\* C2: when no read fails, the pipeline stream_values -> get_stdout_json_lines
\* -> filter_reported has yielded, at its end, one Ok item per line of the
\* output that decodes and one warning per line that does not.
C2_EveryLineAccounted ==
    (cmd = "lines" /\ pc = "done" /\ Spawned /\ NoneOfKind(out, "ReadLine"))
      => /\ Count(out, IsOk) = Count(stdout, IsJson)
         /\ Len(warnings) = Count(stdout, NotJson)

\* C3: behind get_reason_json_lines and filter_reported, a decoded value whose
\* reason is absent, not a string or another tag leaves no item and no
\* warning; one with the expected tag that does not decode into T leaves one
\* ParseValue warning and no item; one that decodes leaves one Ok item; and
\* when every line is JSON and no read fails, every line has been handled.
C3_ReasonFilter ==
    cmd \in {"reason", "test"} =>
      /\ \A i \in 1..pos :
            stdout[i].json =>
              LET items == {j \in 1..Len(out) : out[j].line = i}
                  warns == {j \in 1..Len(warnings) : warnings[j].line = i}
              IN  /\ stdout[i].reason # "expected"
                        => items = {} /\ warns = {}
                  /\ (stdout[i].reason = "expected" /\ ~stdout[i].shape)
                        => /\ items = {}
                           /\ Cardinality(warns) = 1
                           /\ \A j \in warns : KindIs(warnings[j], "ParseValue")
                  /\ (stdout[i].reason = "expected" /\ stdout[i].shape)
                        => /\ warns = {}
                           /\ Cardinality(items) = 1
                           /\ \A j \in items : out[j] = OkItem(i)
      /\ (cmd = "reason" /\ pc = "done" /\ Spawned /\ AllJson(stdout)
            /\ NoneOfKind(out, "ReadLine"))
         => pos = Len(stdout) /\ eof

C3_Witness ==
    /\ cmd = "reason"
    /\ pc = "done"
    /\ Len(stdout) = 3
    /\ stdout[1].json /\ stdout[1].reason = "other"
    /\ stdout[2].reason = "expected" /\ stdout[2].shape
    /\ stdout[3].json /\ stdout[3].reason = "expected" /\ ~stdout[3].shape
    /\ exit_status = 0
    /\ out = <<OkItem(2)>>
    /\ warnings = <<ErrItem("ParseValue", 3, 0)>>

\* C4: a run of check, fmt or test that has spawned a child and ends without
\* having read the child's output to its end leaves no running child.
C4_NoChildLeftRunning ==
    (cmd \in {"check", "fmt", "test"} /\ pc = "done" /\ Spawned /\ ~eof)
      => child # "running"

\* C5: a run of check or fmt that ends with a non-empty batch has called
\* publish_work exactly once, with the whole batch.
C5_NonEmptyBatchPublishedOnce ==
    (cmd \in LoopCmds /\ pc = "done" /\ lints # <<>>) => published = <<lints>>

\* C6: in check and fmt an empty batch is never published, and a run that ends
\* with an empty batch and a zero exit status returns Ok.
C6_EmptyBatchNotPublished ==
    cmd \in LoopCmds =>
      /\ lints = <<>> => published = <<>>
      /\ (pc = "done" /\ lints = <<>> /\ exit_status = 0) => result = OkResult

C6_Witness ==
    /\ cmd = "check"
    /\ pc = "done"
    /\ pos = 2
    /\ eof
    /\ lints = <<>>
    /\ exit_status = 0
    /\ published = <<>>
    /\ result = OkResult

PipelineFailed ==
    \/ result.kind \in {"Spawn", "ReadLine", "WaitChild"}
    \/ exit_status \notin {NoStatus, 0}

PublishFailed == result.kind = "PublishLints"

\* C7: check and fmt return an error whenever the pipeline failed, the batch
\* is non-empty or the publication failed.
C7_FindingsFailTheCommand ==
    (cmd \in LoopCmds /\ pc = "done" /\ (PipelineFailed \/ lints # <<>> \/ PublishFailed))
      => result.tag = "Err"

\* C8: at the end of a run of check, fmt or of a fully pulled
\* get_stdout_json_lines stream that spawned a child, the child's exit status
\* has been waited for exactly once, and that wait started after a read had
\* returned zero bytes.
C8_OneWaitAfterEof ==
    (cmd \in {"check", "fmt", "lines", "reason"} /\ pc = "done" /\ Spawned)
      => waits = <<TRUE>>

Recoverable(x) == x.tag = "Err" /\ x.kind \in {"ParseLine", "ParseValue"}

Passed(x) ==
    \/ x.tag = "Ok"
    \/ x.tag = "Err" /\ x.kind \in {"ReadLine", "Spawn", "WaitChild", "ExitStatus"}

\* C9: what filter_reported has yielded is its input with the ParseLine and
\* ParseValue errors removed, in the same order and unchanged, and it has
\* printed one warning for each of the removed errors and for nothing else.
C9_FilterReported ==
    cmd \in StreamCmds =>
      /\ out = SelectSeq(fed, Passed)
      /\ warnings = SelectSeq(fed, Recoverable)
      /\ Len(out) + Len(warnings) = Len(fed)

C9_Witness ==
    /\ cmd = "reason"
    /\ Len(fed) = 4
    /\ KindIs(fed[1], "ParseValue")
    /\ fed[2] = OkItem(2)
    /\ KindIs(fed[3], "ReadLine")
    /\ KindIs(fed[4], "ExitStatus")
    /\ out = <<fed[2], fed[3], fed[4]>>
    /\ warnings = <<fed[1]>>

FromStreamValues(x) ==
    \/ x.tag = "Ok"
    \/ x.tag = "Err" /\ x.kind \in {"ReadLine", "ParseLine", "ParseValue"}

SpawnErr == ErrItem("Spawn", 0, 0)

\* C11: after a failed spawn nothing else happens.  check and fmt return the
\* Spawn error at once, with nothing read, waited for, collected or
\* published; the stream of get_stdout_json_lines holds the one Spawn error,
\* which is all the consumer ever receives, and no read, wait or test run
\* takes place.
C11_SpawnFailureOnly ==
    /\ (cmd \in LoopCmds /\ result.kind = "Spawn")
         => /\ pc = "done"
            /\ result = ErrResult("Spawn", 0)
            /\ child = "none" /\ pos = 0 /\ ~eof
            /\ waits = <<>> /\ exit_status = NoStatus
            /\ lints = <<>> /\ published = <<>> /\ warnings = <<>>
    /\ (cmd \in StreamCmds /\ (chain = "spawn_err" \/ ~NoneOfKind(fed, "Spawn")))
         => /\ child = "none" /\ pos = 0 /\ ~eof
            /\ waits = <<>> /\ exit_status = NoStatus
            /\ fed \in {<<>>, <<SpawnErr>>}
            /\ out = fed
            /\ warnings = <<>>
            /\ tests = <<>> /\ test_children = <<>>
            /\ chain = "spawn_err" <=> fed = <<>>

C11_Witness ==
    /\ cmd = "lines"
    /\ pc = "done"
    /\ Len(stdout) = 2
    /\ out = <<SpawnErr>>
    /\ child = "none"

GoodLine(l) == l.json /\ l.reason = "expected" /\ l.shape

\* C12: behind get_reason_json_lines and filter_reported every Ok item is the
\* decoding of a line read so far that carries the expected reason and
\* decodes, and the items come in the order of their lines; when every line
\* is such a line, nothing failed and the child exited zero, the items are
\* exactly Ok(1) .. Ok(N) for the N lines of the output.
C12_OrderPreservingSubsequence ==
    cmd \in {"reason", "test"} =>
      /\ \A j \in 1..Len(out) :
            out[j].tag = "Ok" =>
               /\ out[j].line \in 1..pos
               /\ out[j] = OkItem(out[j].line)
               /\ GoodLine(stdout[out[j].line])
      /\ \A j, k \in 1..Len(out) :
            (j < k /\ out[j].tag = "Ok" /\ out[k].tag = "Ok") => out[j].line < out[k].line
      /\ (/\ cmd = "reason" /\ pc = "done" /\ exit_status = 0
          /\ \A i \in 1..Len(stdout) : GoodLine(stdout[i])
          /\ NoneOfKind(out, "ReadLine"))
         => out = [i \in 1..Len(stdout) |-> OkItem(i)]

C12_Witness ==
    /\ cmd = "reason"
    /\ pc = "done"
    /\ Len(stdout) = 3
    /\ \A i \in 1..3 : GoodLine(stdout[i])
    /\ exit_status = 0
    /\ out = <<OkItem(1), OkItem(2), OkItem(3)>>

\* C13: when the child of check or fmt exited non-zero, the run returns
\* PublishLints if the publication failed and ExitStatus with that status if
\* the publication succeeded or was skipped.
C13_PublishErrorFirst ==
    (cmd \in LoopCmds /\ pc = "done" /\ exit_status \notin {NoStatus, 0})
      => /\ publish_failed => result = ErrResult("PublishLints", 0)
         /\ ~publish_failed => result = ErrResult("ExitStatus", exit_status)

C13_Witness ==
    /\ cmd = "fmt"
    /\ pc = "done"
    /\ exit_status = 256
    /\ publish_failed
    /\ Len(published) = 1
    /\ result = ErrResult("PublishLints", 0)

\* C14: in the loop of check a line that is JSON and whose reason is absent
\* or another tag leaves no lint and no warning.
C14_ForeignReasonSilent ==
    cmd = "check" =>
      \A i \in 1..pos :
         (stdout[i].json /\ stdout[i].reason \in {"absent", "other"})
            => /\ \A j \in 1..Len(lints) : lints[j].line # i
               /\ \A j \in 1..Len(warnings) : warnings[j].line # i

\* C16: when no read, wait or publication failed, check and fmt return Ok
\* exactly when the status is zero and otherwise ExitStatus carrying the
\* status; the terminal step of get_stdout_json_lines yields no item exactly
\* when the status is zero and otherwise the ExitStatus error carrying it.
C16_SuccessIffStatusZero ==
    /\ (cmd \in LoopCmds /\ pc = "done" /\ exit_status # NoStatus /\ ~publish_failed)
         => /\ result = OkResult <=> exit_status = 0
            /\ exit_status # 0 => result = ErrResult("ExitStatus", exit_status)
    /\ (cmd \in {"lines", "reason"} /\ chain = "done" /\ exit_status # NoStatus)
         => /\ NoneOfKind(fed, "ExitStatus") <=> exit_status = 0
            /\ exit_status # 0 => fed[Len(fed)] = ErrItem("ExitStatus", 0, exit_status)

C16_Witness ==
    /\ cmd = "check"
    /\ pc = "done"
    /\ eof
    /\ exit_status = 9
    /\ ~publish_failed
    /\ result = ErrResult("ExitStatus", 9)

ChildRunning == IF child = "running" THEN 1 ELSE 0

\* C17: in Context::test at most one child is running at any time: a run_test
\* call is only made once the `cargo test --no-run` child has been waited
\* for, and only when every earlier test child has ended.
C17_OneChildAtATime ==
    cmd = "test" =>
      /\ ChildRunning + Running(test_children) <= 1
      /\ test_children # <<>> => child = "reaped" /\ Len(waits) = 1
      /\ \A i \in 1..(Len(test_children) - 1) : test_children[i] # "running"

C17_Witness ==
    /\ cmd = "test"
    /\ Len(tests) = 2
    /\ test_children = <<"running">>
    /\ child = "reaped"

LineFails(c, l) ==
    IF c = "check"
    THEN \/ ~l.json
         \/ l.reason \in {"absent", "nonstring"}
         \/ l.reason = "expected" /\ ~l.shape
    ELSE ~l.json \/ ~l.shape

\* C19: in the loops of check and fmt, handling a line that fails to decode
\* prints one warning, leaves the batch as it was and stays in the loop; the
\* loop is only left by a read of zero bytes or by a read error.
C19_DecodeFailureWarnsAndContinues ==
    [][(cmd \in LoopCmds /\ pc = "loop") =>
          /\ (pos' = pos + 1 /\ LineFails(cmd, stdout[pos + 1]))
                => /\ warnings' = Append(warnings, Warning(pos + 1))
                   /\ lints' = lints
                   /\ pc' = "loop"
          /\ pc' # "loop"
                => \/ pc' = "wait" /\ eof' /\ pos = Len(stdout)
                   \/ pc' = "done" /\ result' = ErrResult("ReadLine", 0)]_vars

C19_Witness ==
    /\ cmd = "check"
    /\ pc = "loop"
    /\ pos = 2
    /\ lints = <<Lint(1, 1)>>
    /\ stdout[2].json /\ stdout[2].reason = "expected" /\ ~stdout[2].shape
    /\ warnings = <<Warning(2)>>

\* C20: in Context::test an error item is the last thing the consumer
\* receives: the run has returned it wrapped in CommandOutput, the stream has
\* not been polled since and no run_test call has been made.
C20_StopsAtFirstError ==
    cmd = "test" =>
      \A i \in 1..Len(out) :
         out[i].tag = "Err" =>
            /\ i = Len(out)
            /\ out[i].kind \in {"Spawn", "ReadLine", "WaitChild", "ExitStatus"}
            /\ pc = "done"
            /\ result = WrappedResult("CommandOutput", out[i].kind, out[i].status)
            /\ test_children = <<>>
            /\ out[i].kind = "ReadLine" => chain = "first" /\ waits = <<>>

C20_Witness ==
    /\ cmd = "test"
    /\ pc = "done"
    /\ tests = <<1>>
    /\ out = <<OkItem(1), ErrItem("ReadLine", 0, 0)>>
    /\ result = WrappedResult("CommandOutput", "ReadLine", 0)
    /\ test_children = <<>>

BlankLine == <<"LF">>

\* C15: a blank line of the output (only the terminator) is never surfaced
\* as a decode error: stream_values yields no ParseLine error for it and the
\* loops of check and fmt print no warning for it.
C15_BlankLineNotAnError ==
    /\ \A i \in 1..Len(byielded) :
          byielded[i].kind = "ParseLine" => byielded[i].bytes # BlankLine
    /\ \A i \in 1..Len(bwarned) : bwarned[i] # BlankLine

\* C18: for a diagnostic with a code, the lint is located at the first span
\* flagged primary (its file_name, line_start and column_start), whatever
\* the other spans are; without a primary span it is located at the target's
\* src_path, less the .arcconfig directory when that is a prefix of it, and
\* has neither line nor column.
C18_LintLocation ==
    (lpc = "done" /\ diag.code) =>
      /\ Len(lint) = 1
      /\ \A i \in 1..Len(diag.spans) :
            (diag.spans[i].is_primary /\ \A j \in 1..(i - 1) : ~diag.spans[j].is_primary)
               => /\ lint[1].path = diag.spans[i].file_name
                  /\ lint[1].line = <<diag.spans[i].line_start>>
                  /\ lint[1].column = <<diag.spans[i].column_start>>
      /\ (\A i \in 1..Len(diag.spans) : ~diag.spans[i].is_primary)
            => /\ lint[1].line = <<>>
               /\ lint[1].column = <<>>
               /\ IF IsPrefix(arcconfig, diag.src_path)
                  THEN arcconfig \o lint[1].path = diag.src_path
                  ELSE lint[1].path = diag.src_path

C18_Witness ==
    /\ lpc = "done"
    /\ diag.code
    /\ Len(diag.spans) = 2
    /\ ~diag.spans[1].is_primary
    /\ diag.spans[2].is_primary
    /\ diag.spans[2].file_name = <<"src", "a.rs">>
    /\ diag.spans[2].line_start = 10
    /\ diag.spans[2].column_start = 4
    /\ lint = << [path |-> <<"src", "a.rs">>, line |-> <<10>>, column |-> <<4>>] >>

\* The lines stream_values handed to the decoder, in order (a ReadLine item
\* comes from no line).
Decoded == SelectSeq(byielded, LAMBDA it : it.kind # "ReadLine")

RECURSIVE Concat(_)
Concat(ss) == IF ss = <<>> THEN <<>> ELSE Head(ss) \o Concat(Tail(ss))

DecodedBytes == Concat([i \in 1..Len(Decoded) |-> Decoded[i].bytes])

\* One '\n'-delimited segment: not empty, and a terminator, if any, is its
\* last byte.
IsSegment(l) ==
    /\ l # <<>>
    /\ \A i \in 1..(Len(l) - 1) : NotLF(l[i])

\* Every pull decoded one segment of the source, the segments decoded are
\* the source up to the cursor, only the segment that ends the source can
\* lack its terminator, and an item is an error exactly when its bytes fail
\* to decode.
SegmentPerPull ==
    /\ DecodedBytes = SubSeq(src, 1, cursor)
    /\ \A i \in 1..Len(Decoded) :
          /\ IsSegment(Decoded[i].bytes)
          /\ (i < Len(Decoded) \/ cursor < Len(src))
                => IsLF(Decoded[i].bytes[Len(Decoded[i].bytes)])
          /\ (Decoded[i].kind = "ParseLine") <=> ~from_slice_bytes(Decoded[i].bytes)

\* The sequence has ended although no read failed and no read returned zero
\* bytes.
EndedEarly ==
    /\ bstate = "ended"
    /\ \A i \in 1..Len(byielded) : byielded[i].kind # "ReadLine"
    /\ \/ cursor < Len(src)
       \/ line # <<>>

\* C21: stream_values decodes one '\n'-delimited segment of the source per
\* pull, with nothing left over from earlier lines in the buffer, decodes a
\* last segment that has no terminator, puts the bytes of the failing line in
\* a ParseLine error, and ends exactly when a read returns zero bytes.
C21_OneSegmentPerPullUntilZeroRead ==
    bmode = "stream_values" => (SegmentPerPull /\ ~EndedEarly)

\* What holds at every point of a run of check / fmt: the line counter stays
\* within the output, end-of-input is read after the last line, a wait is
\* started only after end-of-input and only once, publish_work is called
\* only after the wait returned a status and only once, and the run has
\* returned exactly when it has an outcome; an outcome decided from the exit
\* status comes after the wait and after the publication of a non-empty batch.
LoopOrder ==
    /\ pos <= Len(stdout)
    /\ eof => pos = Len(stdout)
    /\ waits \in {<<>>, <<TRUE>>}
    /\ waits # <<>> => eof
    /\ Len(published) <= 1
    /\ published # <<>> => (exit_status # NoStatus /\ waits # <<>>)
    /\ exit_status # NoStatus => waits # <<>>
    /\ (pc = "done") <=> (result # NoResult)
    /\ result.kind \in {"Ok", "ExitStatus"}
          => /\ exit_status # NoStatus
             /\ lints # <<>> => published = <<lints>>

\* One line per iteration, and an outcome, once there, is final.
LoopStep ==
    /\ pos' \in {pos, pos + 1}
    /\ result # NoResult => UNCHANGED runVars

\* C22: every run of check / fmt returns, with one outcome; the loop reads
\* one line per iteration and is left at end-of-input, then come the wait, at
\* most one publish_work and the test of the exit status, in that order.
C22_LoopTerminatesInOrder ==
    /\ [](cmd \in LoopCmds => LoopOrder)
    /\ [][(cmd \in LoopCmds) => LoopStep]_vars
    /\ <>(pc = "done" /\ result # NoResult)

C22_Witness ==
    /\ cmd \in LoopCmds
    /\ pc = "done"
    /\ Len(stdout) >= 2
    /\ pos = Len(stdout)
    /\ eof
    /\ waits = <<TRUE>>
    /\ lints # <<>>
    /\ published = <<lints>>
    /\ exit_status = 0
    /\ result = OkResult

\* A compiler-message line that decodes into LintSchema.
Diagnostic(l) == l.json /\ l.reason = "expected" /\ l.shape

\* The lints of the diagnostics with a code among the first n lines, in the
\* order of the lines.  lint.report() is called exactly where the lint is
\* pushed, so the reports printed are the lints of the batch.
CodedLints(n) ==
    SelectSeq([i \in 1..n |-> Lint(i, 1)],
              LAMBDA x : Diagnostic(stdout[x.line]) /\ stdout[x.line].code)

\* C23: in Context::check a diagnostic without a code is skipped without a
\* lint, a report or a warning and the loop goes on with the next line, so
\* the batch is one lint per diagnostic with a code, in the order of the
\* output.
C23_DiagnosticWithoutCodeSkipped ==
    cmd = "check" =>
        /\ lints = CodedLints(pos)
        /\ \A i \in 1..Len(warnings) : ~Diagnostic(stdout[warnings[i].line])
        /\ (pc \in {"wait", "publish", "status"} \/ result.kind \in {"Ok", "ExitStatus"})
              => pos = Len(stdout)

C23_Witness ==
    /\ cmd = "check"
    /\ Len(stdout) = 3
    /\ Diagnostic(stdout[1]) /\ stdout[1].code
    /\ Diagnostic(stdout[2]) /\ ~stdout[2].code
    /\ Diagnostic(stdout[3]) /\ stdout[3].code
    /\ pc = "done"
    /\ lints = <<Lint(1, 1), Lint(3, 1)>>
    /\ published = <<lints>>
    /\ warnings = <<>>

\* The depths, counted from the root, of the directories at which a search
\* from start_dir must stop: .arcconfig decodes, or fails to open with an
\* error other than NotFound.
Decisive ==
    {k \in 0..Len(start_dir) : arcfiles[k + 1] \in {"denied", "callsign", "callsign_uri"}}

Deepest == CHOOSE k \in Decisive : \A j \in Decisive : j <= k

\* The i-th directory on the way from start_dir to the root.
Upward(i) == Ancestor(start_dir, Len(start_dir) - i + 1)

FindVisitsUpward ==
    /\ Len(opened) <= Len(start_dir) + 1
    /\ \A i \in 1..Len(opened) : opened[i] = Upward(i)

FindOutcome ==
    IF Decisive = {}
    THEN /\ found = FoundErr("FindArcConfig", <<>>)
         /\ Len(opened) = Len(start_dir) + 1
    ELSE /\ Len(opened) = Len(start_dir) - Deepest + 1
         /\ IF arcfiles[Deepest + 1] = "denied"
            THEN found = FoundErr("OpenArcConfig", Ancestor(start_dir, Deepest))
            ELSE /\ found.tag = "Ok"
                 /\ found.location = Ancestor(start_dir, Deepest)

\* C24: find returns for every starting directory; it opens .arcconfig in
\* the current directory and then in each parent once, towards the root;
\* it returns the deepest directory whose .arcconfig decodes with
\* repository.callsign, passing over those where the file is missing or
\* does not decode, OpenArcConfig at the first directory where the open
\* fails otherwise, and FindArcConfig when the root is passed.
C24_FindWalksUpToFirstMatch ==
    /\ []FindVisitsUpward
    /\ []((fpc = "done" /\ found.kind # "CurrentDir") => FindOutcome)
    /\ <>(fpc = "done")

C24_Witness ==
    /\ fpc = "done"
    /\ start_dir = <<"a", "b">>
    /\ arcfiles = <<"callsign", "callsign_uri", "no_callsign">>
    /\ opened = << <<"a", "b">>, <<"a">> >>
    /\ found = FoundOk(<<"a">>, "Some")

====
